---- MODULE Spec2Model ----
(***************************************************************************)
(* Order lifecycle (src/app.py) and sales analytics (src/database.py) of   *)
(* the restaurant ordering service, as a state machine.                    *)
(*                                                                         *)
(* Abstractions, stated once:                                              *)
(*  - money and quantities are integers (the code uses floats);            *)
(*  - the clock counts ticks, TicksPerSecond of them to a second; an       *)
(*    instant is the number of ticks since 2025-01-01T00:00:00;            *)
(*  - a text (a date filter, a stored JSON payload) is a sequence of       *)
(*    tokens: single characters for a date filter, JSON tokens for the     *)
(*    items column;                                                        *)
(*  - every request runs in a worker with its own SQLAlchemy session; the  *)
(*    store calls (the row lookup, the commit) and the emit are the steps  *)
(*    at which workers interleave.                                         *)
(***************************************************************************)
EXTENDS Integers, Sequences, FiniteSets, TLC

VARIABLES
    backend,    \* "sqlite" | "postgresql": app.config['SQLALCHEMY_DATABASE_URI']
    db,         \* the committed orders table: id -> row
    idseq,      \* last value drawn from the id sequence (postgresql)
    now,        \* the instant datetime.utcnow() returned last, in ticks
    req,        \* per worker: the request in flight and its session
    resp,       \* the response the last step returned (NoResponse: none),
                \* with the exception its handler logged
    events,     \* the events handed to socketio.emit, oldest first: the
                \* event name and the id its payload carries
    nreq,       \* requests begun
    nticks      \* the reads of the clock that found it advanced

vars == <<backend, db, idseq, now, req, resp, events, nreq, nticks>>

(***************************************************************************)
(* Bounds of the model.                                                    *)
(***************************************************************************)
MaxRequests == 2
MaxTicks == 1
MaxJumps == 1
MaxId == 2
TicksPerSecond == 2

Workers == {"w1", "w2"}

(***************************************************************************)
(* Time.                                                                   *)
(***************************************************************************)
SecondsPerDay == 86400
TicksPerDay == SecondsPerDay * TicksPerSecond

\* days between 1970-01-01 and the civil date y-m-d (proleptic Gregorian),
\* which is what datetime arithmetic computes
DaysFromCivil(y, m, d) ==
    LET yy  == IF m <= 2 THEN y - 1 ELSE y
        era == yy \div 400
        yoe == yy - era * 400
        mp  == IF m > 2 THEN m - 3 ELSE m + 9
        doy == (153 * mp + 2) \div 5 + d - 1
        doe == yoe * 365 + yoe \div 4 - yoe \div 100 + doy
    IN  era * 146097 + doe - 719468

EpochDay == DaysFromCivil(2025, 1, 1)

IsLeap(y) == (y % 4 = 0 /\ y % 100 # 0) \/ y % 400 = 0

DaysInMonth(y, m) ==
    IF m = 2 THEN (IF IsLeap(y) THEN 29 ELSE 28)
    ELSE IF m \in {4, 6, 9, 11} THEN 30 ELSE 31

\* the instant y-m-d 00:00:00
Midnight(y, m, d) == (DaysFromCivil(y, m, d) - EpochDay) * TicksPerDay

\* t.replace(hour=0, minute=0, second=0, microsecond=0)
StartOfDay(t) == (t \div TicksPerDay) * TicksPerDay

\* t.strftime("%Y%m%d%H%M%S"): the instant cut to the whole second; the 14
\* digits name the second one to one, so the second stands for the string
OrderNumber(t) == t \div TicksPerSecond

(***************************************************************************)
(* datetime.strptime(date_filter, '%Y-%m-%d') on a text of characters.     *)
(***************************************************************************)
Digits == <<"0", "1", "2", "3", "4", "5", "6", "7", "8", "9">>

IsDigit(c) == \E i \in 1..10 : Digits[i] = c

DigitVal(c) == (CHOOSE i \in 1..10 : Digits[i] = c) - 1

RECURSIVE SplitDash(_)
\* the fields of a text between its "-" characters
SplitDash(s) ==
    IF \A i \in 1..Len(s) : s[i] # "-" THEN <<s>>
    ELSE LET i == CHOOSE k \in 1..Len(s) :
                      s[k] = "-" /\ \A j \in 1..(k - 1) : s[j] # "-"
         IN  <<SubSeq(s, 1, i - 1)>> \o SplitDash(SubSeq(s, i + 1, Len(s)))

RECURSIVE FieldNum(_)
\* the number a field of digits writes
FieldNum(f) ==
    IF f = <<>> THEN 0
    ELSE FieldNum(SubSeq(f, 1, Len(f) - 1)) * 10 + DigitVal(f[Len(f)])

\* %Y: exactly four digits
MatchesYear(f) == Len(f) = 4 /\ \A i \in 1..4 : IsDigit(f[i])

\* %m: 1[0-2] | 0[1-9] | [1-9]
MatchesMonth(f) ==
    \/ Len(f) = 2 /\ f[1] = "1" /\ f[2] \in {"0", "1", "2"}
    \/ Len(f) = 2 /\ f[1] = "0" /\ IsDigit(f[2]) /\ f[2] # "0"
    \/ Len(f) = 1 /\ IsDigit(f[1]) /\ f[1] # "0"

\* %d: 3[0-1] | [1-2]\d | 0[1-9] | [1-9] | " "[1-9]
MatchesDay(f) ==
    \/ Len(f) = 2 /\ f[1] = "3" /\ f[2] \in {"0", "1"}
    \/ Len(f) = 2 /\ f[1] \in {"1", "2"} /\ IsDigit(f[2])
    \/ Len(f) = 2 /\ f[1] \in {"0", " "} /\ IsDigit(f[2]) /\ f[2] # "0"
    \/ Len(f) = 1 /\ IsDigit(f[1]) /\ f[1] # "0"

DayNum(f) == IF f[1] = " " THEN DigitVal(f[2]) ELSE FieldNum(f)

\* [ok |-> TRUE, t |-> the instant] or [ok |-> FALSE, ...] for a ValueError
StrpTime(s) ==
    LET fs == SplitDash(s)
    IN  IF Len(fs) = 3 /\ MatchesYear(fs[1]) /\ MatchesMonth(fs[2])
           /\ MatchesDay(fs[3])
        THEN LET y == FieldNum(fs[1])
                 m == FieldNum(fs[2])
                 d == DayNum(fs[3])
             IN  IF y >= 1 /\ d <= DaysInMonth(y, m)
                 THEN [ok |-> TRUE, t |-> Midnight(y, m, d)]
                 ELSE [ok |-> FALSE, t |-> 0]
        ELSE [ok |-> FALSE, t |-> 0]

\* the date filters a caller sends
Today == <<"t", "o", "d", "a", "y">>
Yesterday == <<"y", "e", "s", "t", "e", "r", "d", "a", "y">>
Last7Days == <<"l", "a", "s", "t", "_", "7", "_", "d", "a", "y", "s">>
Jan10 == <<"2", "0", "2", "5", "-", "0", "1", "-", "1", "0">>
Jan11 == <<"2", "0", "2", "5", "-", "0", "1", "-", "1", "1">>
NotADate == <<"n", "o", "t", "-", "a", "-", "d", "a", "t", "e">>
Feb30 == <<"2", "0", "2", "5", "-", "0", "2", "-", "3", "0">>

DateFilters == {Today, Yesterday, Last7Days, Jan10, Jan11, NotADate, Feb30}
CategoryFilters == {"all", "drink"}

(***************************************************************************)
(* json.dumps / json.loads of the items column.  A line item is a function *)
(* from some of the keys below to values; the text is its token sequence.  *)
(***************************************************************************)
KeyOrder == <<"name", "category", "price", "quantity">>
NumKeys == {"price", "quantity"}
Numbers == -9..99

ValueText(k, v) == IF k \in NumKeys THEN ToString(v) ELSE v

IsNumeral(s) == \E n \in Numbers : ToString(n) = s

NumeralVal(s) == CHOOSE n \in Numbers : ToString(n) = s

RECURSIVE DumpsPairs(_, _)
DumpsPairs(item, i) ==
    IF i > Len(KeyOrder) THEN <<>>
    ELSE (IF KeyOrder[i] \in DOMAIN item
          THEN <<KeyOrder[i], ValueText(KeyOrder[i], item[KeyOrder[i]])>>
          ELSE <<>>) \o DumpsPairs(item, i + 1)

RECURSIVE DumpsItems(_)
DumpsItems(items) ==
    IF items = <<>> THEN <<>>
    ELSE <<"{">> \o DumpsPairs(items[1], 1) \o <<"}">> \o DumpsItems(Tail(items))

\* json.dumps(data["items"], ensure_ascii=False)
JsonDumps(items) == <<"[">> \o DumpsItems(items) \o <<"]">>

\* the pairs of one object: well formed when keys and values alternate and
\* every number key carries a numeral
PairsOk(body) ==
    /\ Len(body) % 2 = 0
    /\ \A i \in 1..(Len(body) \div 2) :
          /\ body[2 * i - 1] \in {KeyOrder[k] : k \in 1..Len(KeyOrder)}
          /\ body[2 * i - 1] \in NumKeys => IsNumeral(body[2 * i])

PairsValue(body) ==
    [k \in {body[2 * i - 1] : i \in 1..(Len(body) \div 2)} |->
        LET i == CHOOSE j \in 1..(Len(body) \div 2) :
                     /\ body[2 * j - 1] = k
                     /\ \A l \in (j + 1)..(Len(body) \div 2) : body[2 * l - 1] # k
        IN  IF k \in NumKeys THEN NumeralVal(body[2 * i]) ELSE body[2 * i]]

RECURSIVE LoadsItems(_)
LoadsItems(toks) ==
    IF toks = <<>> THEN [ok |-> TRUE, value |-> <<>>]
    ELSE IF toks[1] # "{" \/ \A i \in 1..Len(toks) : toks[i] # "}"
    THEN [ok |-> FALSE, value |-> <<>>]
    ELSE LET j    == CHOOSE k \in 1..Len(toks) :
                         toks[k] = "}" /\ \A l \in 1..(k - 1) : toks[l] # "}"
             body == SubSeq(toks, 2, j - 1)
             rest == LoadsItems(SubSeq(toks, j + 1, Len(toks)))
         IN  IF PairsOk(body) /\ rest.ok
             THEN [ok |-> TRUE, value |-> <<PairsValue(body)>> \o rest.value]
             ELSE [ok |-> FALSE, value |-> <<>>]

\* json.loads(order.items): [ok |-> FALSE, ...] stands for JSONDecodeError
JsonLoads(text) ==
    IF Len(text) < 2 \/ text[1] # "[" \/ text[Len(text)] # "]"
    THEN [ok |-> FALSE, value |-> <<>>]
    ELSE LoadsItems(SubSeq(text, 2, Len(text) - 1))

(***************************************************************************)
(* The request bodies a caller sends.                                      *)
(***************************************************************************)
Tea == [name |-> "tea", category |-> "drink", price |-> 2, quantity |-> 1]
Rice == [name |-> "rice", category |-> "main", price |-> 3, quantity |-> 2]
NegTea == [name |-> "tea", category |-> "drink", price |-> -1, quantity |-> 1]
ZeroRice == [name |-> "rice", category |-> "main", price |-> 3, quantity |-> 0]
NoPrice == [name |-> "tea", category |-> "drink", quantity |-> 1]

ItemLists == {<<>>, <<Tea>>, <<Tea, Rice>>, <<NegTea, ZeroRice>>, <<Tea, NoPrice>>}

\* request.get_json() of a POST /api/orders: an object with some of the
\* keys "items" and "notes" (the empty object stands for None too)
CreateBodies ==
    {<<>>, [notes |-> "no ice"]}
        \cup {[items |-> l] : l \in ItemLists \ {<<Tea, Rice>>}}
        \cup {[items |-> <<Tea, Rice>>, notes |-> "no ice"]}

\* the status a PUT /api/orders/<id>/status carries; NullBody is a body
\* that is None, NoStatus one without the key, "" an empty status
NoStatus == "<none>"
NullBody == "<null>"
StatusInputs == {NullBody, NoStatus, "", "completed", "bogus"}

Statuses == {"pending", "preparing", "completed", "cancelled"}

OrderIds == 1..MaxId

(***************************************************************************)
(* Rows, sessions and responses.                                           *)
(***************************************************************************)
Max(S) == CHOOSE x \in S : \A y \in S : y <= x

RECURSIVE SumItemsNoQuantity(_)
\* a total that forgets the quantities
SumItemsNoQuantity(items) ==
    IF items = <<>> THEN 0
    ELSE items[1].price + SumItemsNoQuantity(Tail(items))

RECURSIVE SumItems(_)
\* sum(item["price"] * item["quantity"] for item in data["items"])
SumItems(items) ==
    IF items = <<>> THEN 0
    ELSE items[1].price * items[1].quantity + SumItems(Tail(items))

\* a line item whose item["price"] or item["quantity"] raises KeyError
HasKeyError(items) ==
    \E i \in 1..Len(items) : ~({"price", "quantity"} \subseteq DOMAIN items[i])

\* a check that forgets the empty list
ItemsMissingNoEmptyCheck(data) == DOMAIN data = {} \/ "items" \notin DOMAIN data

\* `not data or "items" not in data or not data["items"]`
ItemsMissing(data) ==
    DOMAIN data = {} \/ "items" \notin DOMAIN data \/ data.items = <<>>

\* the Order object a session holds before its INSERT
NoNew == [order_number |-> 0, items |-> <<>>, total_amount |-> 0, notes |-> ""]

NewOrder(data, t) ==
    [order_number |-> OrderNumber(t),
     items        |-> JsonDumps(data.items),
     total_amount |-> SumItems(data.items),
     notes        |-> IF "notes" \in DOMAIN data THEN data.notes ELSE ""]

\* the row the INSERT writes: status as the handler set it, created_at and
\* updated_at from their column defaults
InsertedRow(id, new, t) ==
    [id |-> id, order_number |-> new.order_number, items |-> new.items,
     total_amount |-> new.total_amount, status |-> "pending",
     notes |-> new.notes, created_at |-> t, updated_at |-> t]

\* to_dict() of a row raises: json.loads cannot read a non-empty payload
ToDictRaises(row) == row.items # <<>> /\ ~JsonLoads(row.items).ok

\* Order.to_dict(): the payload parsed, the timestamps cut to the second
ToDict(row) ==
    [id |-> row.id, order_number |-> row.order_number,
     items |-> IF row.items # <<>> THEN JsonLoads(row.items).value ELSE <<>>,
     total_amount |-> row.total_amount, status |-> row.status,
     notes |-> row.notes,
     created_at |-> row.created_at \div TicksPerSecond,
     updated_at |-> row.updated_at \div TicksPerSecond]

\* the id the INSERT assigns: sqlite's rowid is one more than the largest
\* rowid in the table, postgresql draws from the column's sequence
NextId ==
    IF backend = "sqlite"
    THEN (IF DOMAIN db = {} THEN 1 ELSE Max(DOMAIN db) + 1)
    ELSE idseq + 1

\* the UNIQUE constraint on orders.order_number
UniqueViolation(new) == \E i \in DOMAIN db : db[i].order_number = new.order_number

\* a session that has loaded no row
NoRow == <<>>

\* a worker's position in its handler: "commit" before db.session.commit(),
\* "reload" before the log line that reads the expired object again, "emit"
\* before socketio.emit; row is the object's state as the session loaded it
Idle ==
    [pc |-> "idle", op |-> "none", id |-> 0, status |-> "", t |-> 0, new |-> NoNew,
     row |-> NoRow]

NoResponse ==
    [op |-> "none", id |-> 0, code |-> 0, exc |-> "", body |-> [kind |-> "none"]]

ErrorBody == [kind |-> "error"]

\* the handler of worker w returns (code, body); exc is the exception its
\* except branch logged, "" when it raised none; id is what the request
\* named: the order id of its URL, or the query of an analytics request
Respond(w, op, id, code, exc, body) ==
    /\ req' = [req EXCEPT ![w] = Idle]
    /\ resp' = [op |-> op, id |-> id, code |-> code, exc |-> exc, body |-> body]

\* a request is taken by the first free worker
CanBegin(w) ==
    /\ req[w].pc = "idle"
    /\ w = "w1" \/ req["w1"].pc # "idle"
    /\ nreq < MaxRequests

\* 2025-01-10T23:00:00, and an hour before it
StartTime == Midnight(2025, 1, 10) + 23 * 60 * 60 * TicksPerSecond
SeedTime == StartTime - 60 * 60 * TicksPerSecond

\* the orders table when the service starts: empty, or holding the row an
\* earlier POST /api/orders of <<Tea>> left in it
SeedStores ==
    {<<>>, <<InsertedRow(1, NewOrder([items |-> <<Tea>>], SeedTime), SeedTime)>>}

Init ==
    /\ backend \in {"sqlite", "postgresql"}
    /\ db \in SeedStores
    /\ idseq = IF backend = "postgresql" THEN Len(db) ELSE 0
    /\ now = StartTime
    /\ req = [w \in Workers |-> Idle]
    /\ resp = NoResponse
    /\ events = <<>>
    /\ nreq = 0
    /\ nticks = 0

(***************************************************************************)
(* The clock: a call of datetime.utcnow() returns now', d ticks after the  *)
(* instant the call before it returned.                                    *)
(***************************************************************************)
\* (the model lets the clock advance by one tick MaxTicks times, or by more
\* than a tick MaxJumps times)
Utcnow(d) ==
    /\ d = 0 \/ nticks < (IF d = 1 THEN MaxTicks ELSE MaxJumps)
    /\ now' = now + d
    /\ nticks' = IF d = 0 THEN nticks ELSE nticks + 1

(***************************************************************************)
(* POST /api/orders                                                        *)
(***************************************************************************)
\* lines 106-118: validation, order number, payload, total
CreateOrder(w, data, d) ==
    /\ CanBegin(w)
    /\ nreq' = nreq + 1
    /\ Utcnow(d)
    /\ IF ItemsMissing(data)
       THEN Respond(w, "create", 0, 400, "", ErrorBody)
       ELSE IF HasKeyError(data.items)
       THEN Respond(w, "create", 0, 500, "KeyError", ErrorBody)
       ELSE /\ req' = [req EXCEPT ![w] =
                   [Idle EXCEPT !.pc = "commit", !.op = "create", !.t = now',
                                !.new = NewOrder(data, now')]]
            /\ resp' = NoResponse
    /\ UNCHANGED <<backend, db, idseq, events>>

\* lines 119-120: db.session.add(new_order); db.session.commit()
CommitCreate(w, d) ==
    /\ req[w].pc = "commit" /\ req[w].op = "create"
    /\ Utcnow(d)
    /\ IF UniqueViolation(req[w].new)
       THEN /\ Respond(w, "create", 0, 500, "IntegrityError", ErrorBody)
            /\ db' = db
       ELSE /\ db' = [i \in DOMAIN db \cup {NextId} |->
                        IF i = NextId THEN InsertedRow(NextId, req[w].new, now')
                        ELSE db[i]]
            /\ req' = [req EXCEPT ![w].pc = "reload", ![w].id = NextId]
            /\ resp' = NoResponse
    /\ idseq' = IF backend = "postgresql" THEN idseq + 1 ELSE idseq
    /\ UNCHANGED <<backend, events, nreq>>

\* lines 121 and 154: the commit expired the object, and the log line's
\* order.order_number reads the row again; a row that is gone by then
\* raises ObjectDeletedError
Reload(w) ==
    /\ req[w].pc = "reload"
    /\ IF req[w].id \notin DOMAIN db
       THEN Respond(w, req[w].op, req[w].id, 500, "ObjectDeletedError", ErrorBody)
       ELSE /\ req' = [req EXCEPT ![w].pc = "emit", ![w].row = db[req[w].id]]
            /\ resp' = NoResponse
    /\ UNCHANGED <<backend, db, idseq, now, events, nreq, nticks>>

\* lines 122-123: to_dict() of the loaded object, the event, the response;
\* a payload that does not parse raises JSONDecodeError
EmitCreate(w) ==
    /\ req[w].pc = "emit" /\ req[w].op = "create"
    /\ IF ToDictRaises(req[w].row)
       THEN /\ events' = events
            /\ Respond(w, "create", req[w].id, 500, "JSONDecodeError", ErrorBody)
       ELSE /\ events' = Append(events, [name |-> "new_order", id |-> req[w].id])
            /\ Respond(w, "create", req[w].id, 201, "",
                       [kind |-> "order", order |-> ToDict(req[w].row)])
    /\ UNCHANGED <<backend, db, idseq, now, nreq, nticks>>

(***************************************************************************)
(* PUT /api/orders/<id>/status                                             *)
(***************************************************************************)
\* lines 146-152: the body, the status check, the row lookup; the NotFound
\* that get_or_404 raises is an Exception, and the handler's except takes it
UpdateStatus(w, id, st, d) ==
    /\ CanBegin(w)
    /\ nreq' = nreq + 1
    /\ Utcnow(d)
    /\ IF st = NullBody
       THEN Respond(w, "update", id, 500, "AttributeError", ErrorBody)
       ELSE IF st \in {NoStatus, ""}
       THEN Respond(w, "update", id, 400, "", ErrorBody)
       ELSE IF id \notin DOMAIN db
       THEN Respond(w, "update", id, 500, "NotFound", ErrorBody)
       ELSE /\ req' = [req EXCEPT ![w] =
                   [Idle EXCEPT !.pc = "commit", !.op = "update", !.id = id,
                                !.status = st, !.t = now']]
            /\ resp' = NoResponse
    /\ UNCHANGED <<backend, db, idseq, events>>

\* an UPDATE that stamps created_at too
CommitUpdateStampsCreated(w) ==
    /\ req[w].pc = "commit" /\ req[w].op = "update"
    /\ IF req[w].id \in DOMAIN db
       THEN /\ db' = [db EXCEPT ![req[w].id].status = req[w].status,
                                ![req[w].id].updated_at = req[w].t,
                                ![req[w].id].created_at = req[w].t]
            /\ req' = [req EXCEPT ![w].pc = "reload"]
            /\ resp' = NoResponse
       ELSE /\ db' = db
            /\ Respond(w, "update", req[w].id, 500, "StaleDataError", ErrorBody)
    /\ UNCHANGED <<backend, idseq, now, events, nreq, nticks>>

\* line 153: UPDATE orders SET status, updated_at WHERE id; no row matched
\* raises StaleDataError
CommitUpdate(w) ==
    /\ req[w].pc = "commit" /\ req[w].op = "update"
    /\ IF req[w].id \in DOMAIN db
       THEN /\ db' = [db EXCEPT ![req[w].id].status = req[w].status,
                                ![req[w].id].updated_at = req[w].t]
            /\ req' = [req EXCEPT ![w].pc = "reload"]
            /\ resp' = NoResponse
       ELSE /\ db' = db
            /\ Respond(w, "update", req[w].id, 500, "StaleDataError", ErrorBody)
    /\ UNCHANGED <<backend, idseq, now, events, nreq, nticks>>

\* lines 155-156
EmitUpdate(w) ==
    /\ req[w].pc = "emit" /\ req[w].op = "update"
    /\ IF ToDictRaises(req[w].row)
       THEN /\ events' = events
            /\ Respond(w, "update", req[w].id, 500, "JSONDecodeError", ErrorBody)
       ELSE /\ events' = Append(events, [name |-> "order_updated", id |-> req[w].id])
            /\ Respond(w, "update", req[w].id, 200, "",
                       [kind |-> "order", order |-> ToDict(req[w].row)])
    /\ UNCHANGED <<backend, db, idseq, now, nreq, nticks>>

(***************************************************************************)
(* DELETE /api/orders/<id>                                                 *)
(***************************************************************************)
\* lines 166-167
DeleteOrder(w, id) ==
    /\ CanBegin(w)
    /\ nreq' = nreq + 1
    /\ IF id \notin DOMAIN db
       THEN Respond(w, "delete", id, 500, "NotFound", ErrorBody)
       ELSE /\ req' = [req EXCEPT ![w] =
                   [Idle EXCEPT !.pc = "commit", !.op = "delete", !.id = id]]
            /\ resp' = NoResponse
    /\ UNCHANGED <<backend, db, idseq, now, events, nticks>>

\* line 168: DELETE FROM orders WHERE id; no row matched is only a warning
CommitDelete(w) ==
    /\ req[w].pc = "commit" /\ req[w].op = "delete"
    /\ db' = [i \in DOMAIN db \ {req[w].id} |-> db[i]]
    /\ req' = [req EXCEPT ![w].pc = "emit"]
    /\ resp' = NoResponse
    /\ UNCHANGED <<backend, idseq, now, events, nreq, nticks>>

\* lines 169-171: the deleted object keeps its loaded attributes
EmitDelete(w) ==
    /\ req[w].pc = "emit" /\ req[w].op = "delete"
    /\ events' = Append(events, [name |-> "order_deleted", id |-> req[w].id])
    /\ Respond(w, "delete", req[w].id, 200, "", [kind |-> "message"])
    /\ UNCHANGED <<backend, db, idseq, now, nreq, nticks>>

(***************************************************************************)
(* The except branches of the three handlers: db.session.rollback(), the   *)
(* error logged, 500 returned.  A rollback discards what the session has   *)
(* not committed; what is committed stays.                                 *)
(***************************************************************************)
\* db.session.commit() raises (the store is unreachable, the write fails)
CommitRaises(w) ==
    /\ req[w].pc = "commit"
    /\ Respond(w, req[w].op, req[w].id, 500, "OperationalError", ErrorBody)
    /\ UNCHANGED <<backend, db, idseq, now, events, nreq, nticks>>

\* an except branch that takes the committed mutation back
EmitRaisesUndo(w) ==
    /\ req[w].pc = "emit"
    /\ Respond(w, req[w].op, req[w].id, 500, "EmitError", ErrorBody)
    /\ db' = [i \in DOMAIN db \ {req[w].id} |-> db[i]]
    /\ UNCHANGED <<backend, idseq, now, events, nreq, nticks>>

\* socketio.emit raises
EmitRaises(w) ==
    /\ req[w].pc = "emit"
    /\ Respond(w, req[w].op, req[w].id, 500, "EmitError", ErrorBody)
    /\ UNCHANGED <<backend, db, idseq, now, events, nreq, nticks>>


(***************************************************************************)
(* get_sales_analytics (src/database.py) and GET /api/analytics.           *)
(***************************************************************************)
\* a resolution that reads every filter as 'today'
WindowAlwaysToday(t, df) ==
    [ok |-> TRUE, from |-> StartOfDay(t), to |-> 0, bounded |-> FALSE]

\* the resolved window: [ok, from, to, bounded]; without `bounded` the
\* query has no upper end
Window(t, df) ==
    IF df = Today
    THEN [ok |-> TRUE, from |-> StartOfDay(t), to |-> 0, bounded |-> FALSE]
    ELSE IF df = Yesterday
    THEN [ok |-> TRUE, from |-> StartOfDay(t - TicksPerDay), to |-> StartOfDay(t),
          bounded |-> TRUE]
    ELSE IF df = Last7Days
    THEN [ok |-> TRUE, from |-> t - 7 * TicksPerDay, to |-> 0, bounded |-> FALSE]
    ELSE LET p == StrpTime(df)
         IN  IF p.ok
             THEN [ok |-> TRUE, from |-> StartOfDay(p.t),
                   to |-> StartOfDay(p.t + TicksPerDay), bounded |-> TRUE]
             ELSE [ok |-> FALSE, from |-> 0, to |-> 0, bounded |-> FALSE]

\* a window that takes in its last instant
InWindowClosed(row, win) ==
    row.created_at >= win.from /\ (win.bounded => row.created_at <= win.to)

InWindow(row, win) ==
    row.created_at >= win.from /\ (win.bounded => row.created_at < win.to)

RECURSIVE SeqOfIds(_)
\* the ids of a set, ascending: the order in which the query returns rows
SeqOfIds(S) ==
    IF S = {} THEN <<>>
    ELSE LET m == CHOOSE x \in S : \A y \in S : x <= y
         IN  <<m>> \o SeqOfIds(S \ {m})

RECURSIVE SumAmounts(_, _)
SumAmounts(rows, ids) ==
    IF ids = <<>> THEN 0
    ELSE rows[ids[1]].total_amount + SumAmounts(rows, Tail(ids))

ItemName(item) == IF "name" \in DOMAIN item THEN item.name ELSE "unnamed"
ItemCategory(item) == IF "category" \in DOMAIN item THEN item.category ELSE "unknown"
ItemQuantity(item) == IF "quantity" \in DOMAIN item THEN item.quantity ELSE 1
ItemPrice(item) == IF "price" \in DOMAIN item THEN item.price ELSE 0

\* an aggregation step that does not look at the category filter
AddItemAnyCategory(stats, item, cf) ==
    LET name  == ItemName(item)
        cat   == ItemCategory(item)
        known == \E i \in 1..Len(stats) :
                     stats[i].name = name /\ stats[i].category = cat
        st    == IF known THEN stats
                 ELSE Append(stats, [name |-> name, category |-> cat,
                                     quantity |-> 0, total_price |-> 0])
        k     == CHOOSE i \in 1..Len(st) :
                     st[i].name = name /\ st[i].category = cat
    IN  [st EXCEPT ![k].quantity = @ + ItemQuantity(item),
                   ![k].total_price = @ + ItemPrice(item) * ItemQuantity(item)]

\* lines 102-114 for one line item: item_stats keeps its keys in the order
\* of their first insertion
AddItem(stats, item, cf) ==
    LET name == ItemName(item)
        cat  == ItemCategory(item)
    IN  IF cf # "all" /\ cat # cf THEN stats
        ELSE LET known == \E i \in 1..Len(stats) :
                              stats[i].name = name /\ stats[i].category = cat
                 st    == IF known THEN stats
                          ELSE Append(stats, [name |-> name, category |-> cat,
                                              quantity |-> 0, total_price |-> 0])
                 k     == CHOOSE i \in 1..Len(st) :
                              st[i].name = name /\ st[i].category = cat
             IN  [st EXCEPT ![k].quantity = @ + ItemQuantity(item),
                            ![k].total_price = @ + ItemPrice(item) * ItemQuantity(item)]

RECURSIVE AddItems(_, _, _)
AddItems(stats, items, cf) ==
    IF items = <<>> THEN stats
    ELSE AddItems(AddItem(stats, items[1], cf), Tail(items), cf)

RECURSIVE ItemStats(_, _, _, _)
\* lines 98-114 over the completed orders: [ok, stats]; a payload that does
\* not parse ends the loop with JSONDecodeError
ItemStats(rows, ids, cf, stats) ==
    IF ids = <<>> THEN [ok |-> TRUE, stats |-> stats]
    ELSE LET parsed == JsonLoads(rows[ids[1]].items)
         IN  IF parsed.ok
             THEN ItemStats(rows, Tail(ids), cf, AddItems(stats, parsed.value, cf))
             ELSE [ok |-> FALSE, stats |-> <<>>]

\* an aggregation that counts the orders of every status
GetSalesAnalyticsAnyStatus(rows, t, df, cf) ==
    LET win == Window(t, df)
    IN  IF ~win.ok THEN [error |-> "date"]
        ELSE LET orders == {i \in DOMAIN rows : InWindow(rows[i], win)}
                 all    == SeqOfIds(orders)
                 agg    == ItemStats(rows, all, cf, <<>>)
             IN  IF orders = {}
                 THEN [total_orders |-> 0, total_revenue |-> 0, items |-> <<>>]
                 ELSE IF ~agg.ok THEN [error |-> "json"]
                 ELSE [total_orders  |-> Len(all),
                       total_revenue |-> SumAmounts(rows, all),
                       items |-> [i \in 1..Len(agg.stats) |->
                                    [name |-> agg.stats[i].name,
                                     category |-> agg.stats[i].category,
                                     quantity |-> agg.stats[i].quantity,
                                     total_price |-> agg.stats[i].total_price,
                                     date |-> win.from \div TicksPerDay]]]

\* the dict get_sales_analytics returns: the keys total_orders,
\* total_revenue, items, or the key error (amounts are whole numbers, which
\* round(x, 2) returns as they are)
GetSalesAnalytics(rows, t, df, cf) ==
    LET win == Window(t, df)
    IN  IF ~win.ok THEN [error |-> "date"]
        ELSE LET orders    == {i \in DOMAIN rows : InWindow(rows[i], win)}
                 completed == SeqOfIds({i \in orders : rows[i].status = "completed"})
                 agg       == ItemStats(rows, completed, cf, <<>>)
             IN  IF orders = {}
                 THEN [total_orders |-> 0, total_revenue |-> 0, items |-> <<>>]
                 ELSE IF ~agg.ok THEN [error |-> "json"]
                 ELSE [total_orders  |-> Len(completed),
                       total_revenue |-> SumAmounts(rows, completed),
                       items |-> [i \in 1..Len(agg.stats) |->
                                    [name |-> agg.stats[i].name,
                                     category |-> agg.stats[i].category,
                                     quantity |-> agg.stats[i].quantity,
                                     total_price |-> agg.stats[i].total_price,
                                     date |-> win.from \div TicksPerDay]]]

EmptyAnalytics == [total_orders |-> 0, total_revenue |-> 0, items |-> <<>>]

\* `not analytics_data.get(key)`: the key is missing, or its value is 0 / []
NotGet(d, key, empty) == key \notin DOMAIN d \/ d[key] = empty

\* lines 185-196: what get_analytics returns for the dict it got
AnalyticsResponse(d) ==
    IF NotGet(d, "total_orders", 0) /\ NotGet(d, "items", <<>>)
    THEN [code |-> 200, body |-> [kind |-> "analytics", data |-> EmptyAnalytics]]
    ELSE [code |-> 200, body |-> [kind |-> "analytics", data |-> d]]

GetAnalytics(w, df, cf, d) ==
    /\ CanBegin(w)
    /\ nreq' = nreq + 1
    /\ Utcnow(d)
    /\ LET r == AnalyticsResponse(GetSalesAnalytics(db, now', df, cf))
       IN  Respond(w, "analytics", <<df, cf>>, r.code, "", r.body)
    /\ UNCHANGED <<backend, db, idseq, events>>

(***************************************************************************)
(* The service.  Spec: the lifecycle handlers under concurrent workers,    *)
(* the clock moving by a tick between two reads.  SpecAnalytics: one       *)
(* worker, the lifecycle handlers and the analytics request, the clock     *)
(* moving by an hour or a week.                                            *)
(***************************************************************************)
Lifecycle(w, D) ==
    \/ \E data \in CreateBodies, d \in D : CreateOrder(w, data, d)
    \/ \E d \in D : CommitCreate(w, d)
    \/ Reload(w)
    \/ EmitCreate(w)
    \/ \E id \in OrderIds, st \in StatusInputs, d \in D : UpdateStatus(w, id, st, d)
    \/ CommitUpdate(w)
    \/ EmitUpdate(w)
    \/ \E id \in OrderIds : DeleteOrder(w, id)
    \/ CommitDelete(w)
    \/ EmitDelete(w)
    \/ CommitRaises(w)
    \/ EmitRaises(w)

Next == \E w \in Workers : Lifecycle(w, {0, 1})

Spec == Init /\ [][Next]_vars

HourOrWeek == {0, 60 * 60 * TicksPerSecond, 7 * TicksPerDay}

NextAnalytics ==
    \/ Lifecycle("w1", HourOrWeek)
    \/ \E df \in DateFilters, cf \in CategoryFilters, d \in HourOrWeek :
          GetAnalytics("w1", df, cf, d)

SpecAnalytics == Init /\ [][NextAnalytics]_vars

\* The orders table lives in a database that other clients write too
\* (DATABASE_URL names a server): a row's items text is cut short, which is
\* the payload json.loads cannot read.
ExternalWrite(id) ==
    /\ id \in DOMAIN db
    /\ JsonLoads(db[id].items).ok
    /\ db' = [db EXCEPT ![id].items = SubSeq(@, 1, Len(@) - 1)]
    /\ resp' = NoResponse
    /\ UNCHANGED <<backend, idseq, now, req, events, nreq, nticks>>

NextStore ==
    \/ NextAnalytics
    \/ \E id \in OrderIds : ExternalWrite(id)

\* SpecStore: SpecAnalytics on a table that other clients write
SpecStore == Init /\ [][NextStore]_vars

\* a row whose status a PUT /api/orders/<id>/status set to 'completed' at t
CompletedAt(row, t) == [row EXCEPT !.status = "completed", !.updated_at = t]

\* the row a POST /api/orders of `items` at instant t left in the table
SeedRow(id, items, t) == InsertedRow(id, NewOrder([items |-> items], t), t)

\* 2025-01-11T00:00:00
NextDay == Midnight(2025, 1, 11)

\* the orders table of a service that has run for a day, and the instant
\* its clock shows: at 23:00 a completed order of tea and rice and a pending
\* order of tea from the last hour; or, just after midnight, two completed
\* orders stamped on the two sides of midnight
ReportStarts ==
    {[now |-> StartTime,
      db  |-> <<CompletedAt(SeedRow(1, <<Tea, Rice>>, SeedTime), SeedTime + 1),
                SeedRow(2, <<Tea>>, SeedTime + TicksPerSecond)>>],
     [now |-> NextDay + 1,
      db  |-> <<CompletedAt(SeedRow(1, <<Tea>>, NextDay - 1), NextDay),
                CompletedAt(SeedRow(2, <<Tea>>, NextDay), NextDay + 1)>>]}

ReportStores == {s.db : s \in ReportStarts}

InitReports ==
    /\ backend \in {"sqlite", "postgresql"}
    /\ \E s \in ReportStarts : db = s.db /\ now = s.now
    /\ idseq = IF backend = "postgresql" THEN Len(db) ELSE 0
    /\ req = [w \in Workers |-> Idle]
    /\ resp = NoResponse
    /\ events = <<>>
    /\ nreq = 0
    /\ nticks = 0

\* the requests of SpecReports: an order of tea and rice, status updates,
\* deletions and analytics requests, one at a time; the clock moves between
\* requests, where the analytics request reads it
NextReports ==
    \/ CreateOrder("w1", [items |-> <<Tea, Rice>>, notes |-> "no ice"], 0)
    \/ CommitCreate("w1", 0)
    \/ EmitCreate("w1")
    \/ \E id \in OrderIds, st \in StatusInputs : UpdateStatus("w1", id, st, 0)
    \/ CommitUpdate("w1")
    \/ Reload("w1")
    \/ EmitUpdate("w1")
    \/ \E id \in OrderIds : DeleteOrder("w1", id)
    \/ CommitDelete("w1")
    \/ EmitDelete("w1")
    \/ \E df \in DateFilters, cf \in CategoryFilters, d \in HourOrWeek :
          GetAnalytics("w1", df, cf, d)

\* SpecReports: the analytics request on a table that holds a day's orders
SpecReports == InitReports /\ [][NextReports]_vars

(***************************************************************************)
(* The claims.                                                             *)
(***************************************************************************)
RECURSIVE LineTotal(_)
\* the sum over line items of price x quantity
LineTotal(items) ==
    IF Len(items) = 0 THEN 0
    ELSE LineTotal(SubSeq(items, 1, Len(items) - 1))
         + items[Len(items)].price * items[Len(items)].quantity

\* worker w's INSERT commits in this step
Inserts(w) ==
    req[w].pc = "commit" /\ req[w].op = "create" /\ req'[w].pc = "reload"

\* C1: the order a CreateOrder persists has total_amount equal to the sum
\* over its line items of price x quantity, and status 'pending'.
C1_CreatedTotalAndStatus ==
    [][\A w \in Workers : Inserts(w) =>
          LET row == db'[req'[w].id]
          IN  /\ row.total_amount = LineTotal(JsonLoads(row.items).value)
              /\ row.status = "pending"]_vars

\* an order of two line items, worth 2 x 1 + 3 x 2, has just been persisted
C1_Witness ==
    \E w \in Workers :
        /\ req[w].pc = "reload" /\ req[w].op = "create"
        /\ req[w].id \in DOMAIN db
        /\ Len(JsonLoads(db[req[w].id].items).value) = 2
        /\ db[req[w].id].total_amount = 8
        /\ db[req[w].id].status = "pending"

\* a body without a line-item list, or with an empty one
NoLineItems(data) ==
    IF "items" \in {k \in {"items", "notes"} : k \in DOMAIN data}
    THEN Len(data.items) = 0
    ELSE TRUE

\* C2: CreateOrder with a missing or empty line-item list fails with a
\* validation error, persists nothing and emits nothing.
C2_EmptyCreateRejected ==
    [][\A w \in Workers, data \in {b \in CreateBodies : NoLineItems(b)},
          d \in {0, 1} :
          (/\ nreq' = nreq + 1
           /\ resp'.op = "create" \/ req'[w].op = "create"
           /\ CreateOrder(w, data, d)) =>
              /\ resp'.op = "create" /\ resp'.code = 400
              /\ req'[w] = Idle
              /\ db' = db
              /\ events' = events]_vars

\* an empty CreateOrder has just been rejected while the store holds an order
C2_Witness ==
    resp.op = "create" /\ resp.code = 400 /\ DOMAIN db # {} /\ events = <<>>

\* C3: every stored order has only line items with positive price and
\* positive quantity, and so a positive total_amount.
C3_StoredItemsPositive ==
    \A i \in DOMAIN db :
        /\ \A k \in 1..Len(JsonLoads(db[i].items).value) :
              /\ JsonLoads(db[i].items).value[k].price > 0
              /\ JsonLoads(db[i].items).value[k].quantity > 0
        /\ db[i].total_amount > 0

\* C4: UpdateStatus with an id that is not in the store fails with a
\* not-found error and leaves the store unchanged (stated for a request
\* that carries a recognized status, so that nothing else is wrong with it).
C4_UnknownIdNotFound ==
    [][\A w \in Workers, id \in OrderIds, st \in Statuses, d \in {0, 1} :
          (UpdateStatus(w, id, st, d) /\ id \notin DOMAIN db) =>
              resp'.code = 404 /\ db' = db]_vars

\* DeleteOrder(id) has succeeded: its event is out and its 200 returned
Deleted(id) ==
    \E k \in 1..Len(events) : events[k] = [name |-> "order_deleted", id |-> id]

\* C5: once DeleteOrder(id) has succeeded, every later UpdateStatus(id, s)
\* fails with a not-found error and changes no stored order (stated for a
\* request that carries a recognized status).
C5_UpdateAfterDeleteNotFound ==
    [][\A w \in Workers, id \in OrderIds, st \in Statuses, d \in {0, 1} :
          (UpdateStatus(w, id, st, d) /\ Deleted(id)) =>
              resp'.code = 404 /\ db' = db]_vars

\* C6: the status of every stored order is one of pending, preparing,
\* completed, cancelled.
C6_StatusRecognized == \A i \in DOMAIN db : db[i].status \in Statuses

\* C7: when the emit raises after the commit, the committed mutation stays
\* in the store: a created order present, a new status set, a deleted
\* order absent.
C7_EmitFailureKeepsMutation ==
    [][\A w \in Workers :
          (req[w].pc = "emit" /\ req'[w] = Idle /\ resp'.exc = "EmitError") =>
              /\ DOMAIN db' = DOMAIN db
              /\ \A i \in DOMAIN db : db'[i] = db[i]]_vars

\* a create whose emit raised has answered, and its order is in the store
C7_Witness ==
    /\ resp.op = "create" /\ resp.exc = "EmitError"
    /\ resp.id \in DOMAIN db

\* C8: a call whose store mutation is committed returns the success
\* response; no call returns a failure while its mutation is persisted.
C8_CommittedCallSucceeds ==
    [][\A w \in Workers :
          (req[w].pc \in {"reload", "emit"} /\ req'[w] = Idle) =>
              resp'.code \in {200, 201}]_vars

\* the date filters of the model that the analytics request accepts
ValidDateFilters == {Today, Yesterday, Last7Days, Jan10, Jan11}

\* C9: an analytics request whose date filter is not 'today', 'yesterday',
\* 'last_7_days' or a valid YYYY-MM-DD date returns a validation error.
C9_InvalidDateRejected ==
    [][\A df \in DateFilters \ ValidDateFilters, cf \in CategoryFilters,
          d \in HourOrWeek :
          (resp'.op = "analytics" /\ GetAnalytics("w1", df, cf, d)) =>
              resp'.code = 400]_vars

\* a completed order in the window of df at instant t whose stored
\* line-item payload cannot be parsed
UnreadableInWindow(t, df) ==
    \E i \in DOMAIN db :
        /\ db[i].status = "completed"
        /\ InWindow(db[i], Window(t, df))
        /\ ~JsonLoads(db[i].items).ok

\* C10: when a completed order in the requested window has a payload that
\* cannot be parsed, the analytics request returns an error, never a
\* success response.
C10_ParseFailureSurfaced ==
    [][\A df \in ValidDateFilters, cf \in CategoryFilters, d \in HourOrWeek :
          (/\ resp'.op = "analytics"
           /\ UnreadableInWindow(now', df)
           /\ GetAnalytics("w1", df, cf, d)) =>
              resp'.code # 200]_vars

\* the calendar day of an instant
DayOf(c) == c \div TicksPerDay

\* an order stamped c is in the window of date filter df at instant t
InDateWindow(c, t, df) ==
    IF df = Today THEN DayOf(c) = DayOf(t) /\ c <= t
    ELSE IF df = Yesterday THEN DayOf(c) = DayOf(t) - 1
    ELSE IF df = Last7Days THEN t - 7 * TicksPerDay <= c /\ c <= t
    ELSE IF df = Jan10 THEN DayOf(c) = DayOf(Midnight(2025, 1, 10))
    ELSE DayOf(c) = DayOf(Midnight(2025, 1, 11))

\* the completed orders of the store in the window of df at instant t
Counted(t, df) ==
    {i \in DOMAIN db : db[i].status = "completed"
                         /\ InDateWindow(db[i].created_at, t, df)}

RECURSIVE TotalOf(_)
\* the sum of total_amount over the orders of S
TotalOf(S) ==
    IF S = {} THEN 0
    ELSE LET i == CHOOSE x \in S : TRUE
         IN  db[i].total_amount + TotalOf(S \ {i})

RECURSIVE LinesOf(_)
\* the line items of the orders of S
LinesOf(S) ==
    IF S = {} THEN <<>>
    ELSE LET i == CHOOSE x \in S : TRUE
         IN  JsonLoads(db[i].items).value \o LinesOf(S \ {i})

RECURSIVE QuantityOf(_)
\* the sum of quantity over line items
QuantityOf(lines) ==
    IF lines = <<>> THEN 0 ELSE lines[1].quantity + QuantityOf(Tail(lines))

\* C11: the analytics result of a valid date filter has total_orders equal
\* to the number of orders in the date window whose status is 'completed'
\* at the call, and total_revenue equal to the sum of their total_amount;
\* an order of another status adds nothing to the totals or the item rows.
C11_OnlyCompletedCounted ==
    [][(resp'.op = "analytics" /\ resp'.id[1] \in ValidDateFilters) =>
              LET data == resp'.body.data
                  cf   == resp'.id[2]
                  S    == Counted(now', resp'.id[1])
              IN  /\ data.total_orders = Cardinality(S)
                  /\ data.total_revenue = TotalOf(S)
                  /\ cf = "all" =>
                        /\ QuantityOf(data.items) = QuantityOf(LinesOf(S))
                        /\ LineTotal(LinesOf(S)) =
                             LineTotal([k \in 1..Len(data.items) |->
                                 [price |-> data.items[k].total_price,
                                  quantity |-> 1]])]_vars

\* an analytics call of today counted the completed order of 8 and left
\* out the pending order created in the same hour
C11_Witness ==
    /\ resp.op = "analytics" /\ resp.id = <<Today, "all">>
    /\ resp.body.data.total_orders = 1
    /\ resp.body.data.total_revenue = 8
    /\ \E i \in DOMAIN db : /\ db[i].status = "pending"
                            /\ InDateWindow(db[i].created_at, now, Today)

\* the line items of category c, and those named n
OfCategory(lines, c) == SelectSeq(lines, LAMBDA l : l.category = c)
Named(lines, n) == SelectSeq(lines, LAMBDA l : l.name = n)

\* C12: with a category filter c other than 'all', the analytics result has
\* one item row per distinct name among the line items of category exactly
\* c in the completed orders of the date window, its quantity and
\* total_price the sums of quantity and price x quantity over those line
\* items, and no row of another category.
C12_CategoryRows ==
    [][(/\ resp'.op = "analytics"
        /\ resp'.id[1] \in ValidDateFilters
        /\ resp'.id[2] # "all") =>
              LET items == resp'.body.data.items
                  c     == resp'.id[2]
                  lines == OfCategory(LinesOf(Counted(now', resp'.id[1])), c)
                  names == {lines[k].name : k \in 1..Len(lines)}
              IN  /\ Len(items) = Cardinality(names)
                  /\ \A k \in 1..Len(items) : items[k].category = c
                  /\ \A n \in names : \E k \in 1..Len(items) :
                        /\ items[k].name = n
                        /\ items[k].quantity = QuantityOf(Named(lines, n))
                        /\ items[k].total_price = LineTotal(Named(lines, n))]_vars

\* an analytics call of category 'drink' over two completed orders, one of
\* them holding rice too, returned the single row of two teas worth 4
C12_Witness ==
    /\ resp.op = "analytics" /\ resp.id[2] = "drink"
    /\ Len(resp.body.data.items) = 1
    /\ resp.body.data.items[1].name = "tea"
    /\ resp.body.data.items[1].quantity = 2
    /\ resp.body.data.items[1].total_price = 4
    /\ resp.body.data.total_orders = 2
    /\ resp.body.data.total_revenue = 10

\* the completed orders stamped from y-m-d 00:00:00 on and before the same
\* hour of the day after
CompletedOn(y, m, d) ==
    {i \in DOMAIN db : /\ db[i].status = "completed"
                       /\ Midnight(y, m, d) <= db[i].created_at
                       /\ db[i].created_at < Midnight(y, m, d + 1)}

\* C13: with a date filter YYYY-MM-DD the aggregation considers an order if
\* and only if its created_at is in the half-open window from the start of
\* that day to the start of the next day: an order of 23:00 on day D is
\* counted for filter D and not for filter D+1.
C13_CustomDayWindow ==
    [][resp'.op = "analytics" =>
          /\ resp'.id[1] = Jan10 =>
                resp'.body.data.total_orders = Cardinality(CompletedOn(2025, 1, 10))
          /\ resp'.id[1] = Jan11 =>
                resp'.body.data.total_orders = Cardinality(CompletedOn(2025, 1, 11))]_vars

\* an analytics call of 2025-01-10 counted the order stamped one tick
\* before 2025-01-11T00:00:00 and left out the order of that midnight
C13_Witness ==
    /\ resp.op = "analytics" /\ resp.id[1] = Jan10
    /\ resp.body.data.total_orders = 1
    /\ \E i \in DOMAIN db : /\ db[i].status = "completed"
                            /\ db[i].created_at = Midnight(2025, 1, 11)
    /\ \E i \in DOMAIN db : /\ db[i].status = "completed"
                            /\ db[i].created_at = Midnight(2025, 1, 11) - 1

\* an analytics call answers right after an analytics call of the same
\* date filter and category filter: no other request came between them
RepeatedCall == resp.op = "analytics" /\ resp'.op = "analytics" /\ resp'.id = resp.id

SameSecond(w, i) == db[i].order_number = OrderNumber(req[w].t)

\* C15: two valid CreateOrder requests handled within the same clock second
\* both succeed and both orders are persisted, and the store never holds
\* two orders with the same order_number.
C15_SameSecondCreatesSucceed ==
    [][\A w \in Workers :
          (/\ req[w].pc = "commit" /\ req[w].op = "create"
           /\ req'[w] # req[w]
           /\ resp'.exc # "OperationalError"
           /\ \E i \in DOMAIN db : SameSecond(w, i)) =>
              /\ req'[w].pc = "reload"
              /\ DOMAIN db \subseteq DOMAIN db'
              /\ Cardinality(DOMAIN db') = Cardinality(DOMAIN db) + 1
              /\ \A i, j \in DOMAIN db' :
                    i # j => db'[i].order_number # db'[j].order_number]_vars

\* C16: an UpdateStatus(id, s) and a DeleteOrder(id) running concurrently
\* on an existing order take effect in some serial order: an update whose
\* order the delete has removed before its commit fails with a not-found
\* error and writes nothing, the delete's commit removes the order, and no
\* step of the update brings a removed order back.
C16_UpdateDeleteSerialized ==
    [][/\ \A w \in Workers :
            /\ (/\ req[w].pc = "commit" /\ req[w].op = "update"
                /\ req[w].id \notin DOMAIN db
                /\ req'[w] # req[w]
                /\ resp'.exc # "OperationalError") =>
                   resp'.code = 404 /\ db' = db
            /\ (/\ req[w].pc = "commit" /\ req[w].op = "delete"
                /\ req'[w].pc = "emit") =>
                   req[w].id \notin DOMAIN db'
       /\ \A id \in OrderIds :
            (id \notin DOMAIN db /\ ~\E w \in Workers : Inserts(w)) =>
                id \notin DOMAIN db']_vars

\* the event of an operation
EventOf(op) ==
    IF op = "create" THEN "new_order"
    ELSE IF op = "update" THEN "order_updated" ELSE "order_deleted"

\* worker w's call has committed its store mutation
Committed(w) == req[w].pc \in {"reload", "emit"}

\* C17: a CreateOrder, UpdateStatus or DeleteOrder call that commits its
\* store mutation emits exactly one event of the matching kind, after the
\* commit; a call that fails before committing emits no event.  (A call
\* whose socketio.emit itself raises is left aside.)
C17_OneEventAfterCommit ==
    [][\A w \in Workers :
          /\ (Committed(w) /\ req'[w] = Idle /\ resp'.exc # "EmitError") =>
                events' = Append(events, [name |-> EventOf(req[w].op),
                                          id |-> req[w].id])
          /\ (Committed(w) /\ req'[w] # Idle) => events' = events
          /\ (~Committed(w) /\ req'[w] # req[w]) => events' = events]_vars

\* the columns an update leaves alone
FrozenColumns == {"id", "order_number", "items", "total_amount", "notes", "created_at"}

\* worker w's UPDATE commits in this step
Updates(w) ==
    req[w].pc = "commit" /\ req[w].op = "update" /\ req'[w].pc = "reload"

\* C18: a successful UpdateStatus(id, s) changes only the status and the
\* updated_at of order id: its id, order_number, line items, total_amount,
\* notes and created_at stay, and so does every other stored order.
C18_UpdateFrame ==
    [][\A w \in Workers :
          /\ Updates(w) =>
                /\ DOMAIN db' = DOMAIN db
                /\ \A i \in DOMAIN db \ {req[w].id} : db'[i] = db[i]
                /\ \A f \in FrozenColumns : db'[req[w].id][f] = db[req[w].id][f]
                /\ db'[req[w].id].status = req[w].status
          /\ (req[w].op = "update" /\ req'[w] # req[w] /\ ~Updates(w)) =>
                db' = db]_vars

\* an update to 'completed' has committed on one of two stored orders,
\* later than the order was created
C18_Witness ==
    \E w \in Workers :
        /\ req[w].pc = "reload" /\ req[w].op = "update"
        /\ Cardinality(DOMAIN db) = 2
        /\ req[w].id \in DOMAIN db
        /\ db[req[w].id].status = "completed"
        /\ db[req[w].id].updated_at > db[req[w].id].created_at

\* the ids the history shows as assigned: those of the stored orders and
\* those the emitted events name
AssignedBefore == DOMAIN db \cup {events[k].id : k \in 1..Len(events)}

\* C19: order ids are unique and monotonic over the whole history: the id
\* given to a newly created order is greater than every id assigned
\* before, so the id of a deleted order is never given to a later order.
C19_IdsMonotonic ==
    [][\A w \in Workers :
          Inserts(w) => \A i \in AssignedBefore : i < req'[w].id]_vars

\* C20: the events of one order follow the order in which its store
\* mutations committed: under any interleaving of concurrent
\* UpdateStatus(id, s) and DeleteOrder(id) calls, no order_updated event for
\* id is emitted after the order_deleted event for id.
C20_NoUpdateEventAfterDelete ==
    [][\A id \in OrderIds :
          Deleted(id) =>
              events' # Append(events, [name |-> "order_updated", id |-> id])]_vars

====
